---- MODULE Spec2Model ----
(***************************************************************************)
(* State-machine model of the EVS Connector nodes:                         *)
(*   "polling"  EVSConnectorPolling.execute   (lib/nodes/EVSConnectorPolling.ts)   *)
(*   "create"   EVSConnector.execute, create-only (lib/nodes/EVSConnector.ts:150)  *)
(*   "monitor"  EVSConnector.execute, create-and-monitor (EVSConnector.ts:326)     *)
(*   "part2"    EVSConnector.execute of unnamed/part_002                           *)
(* One invocation of execute() is modelled.  Every await of the code is a  *)
(* control point (pc); the code between two awaits is one atomic action.   *)
(* Text is a sequence of one-character strings, so that trim, toLowerCase  *)
(* and includes are computed as the code computes them.                    *)
(***************************************************************************)
EXTENDS Integers, Sequences, FiniteSets, TLC

(***************************************************************************)
(* Text helpers (JavaScript String methods used by the nodes).             *)
(***************************************************************************)
UpperChars == <<"A","B","C","D","E","F","G","H","I","J","K","L","M",
                "N","O","P","Q","R","S","T","U","V","W","X","Y","Z">>

LowerChars == <<"a","b","c","d","e","f","g","h","i","j","k","l","m",
                "n","o","p","q","r","s","t","u","v","w","x","y","z">>

toLowerChar(c) ==
    IF \E i \in DOMAIN UpperChars : UpperChars[i] = c
    THEN LowerChars[CHOOSE i \in DOMAIN UpperChars : UpperChars[i] = c]
    ELSE c

\* String.prototype.toLowerCase
toLowerCase(s) == [i \in 1..Len(s) |-> toLowerChar(s[i])]

\* the characters \s matches among those the model uses
IsSpace(c) == c \in {" ", "\n", "\r", "\t"}

RECURSIVE trimStart(_)
trimStart(s) == IF s # <<>> /\ IsSpace(Head(s)) THEN trimStart(Tail(s)) ELSE s

RECURSIVE trimEnd(_)
trimEnd(s) ==
    IF s # <<>> /\ IsSpace(s[Len(s)]) THEN trimEnd(SubSeq(s, 1, Len(s) - 1)) ELSE s

\* String.prototype.trim
trim(s) == trimEnd(trimStart(s))

\* s.replace(/\/+$/g, "")
RECURSIVE stripTrailingSlashes(_)
stripTrailingSlashes(s) ==
    IF s # <<>> /\ s[Len(s)] = "/"
    THEN stripTrailingSlashes(SubSeq(s, 1, Len(s) - 1))
    ELSE s

\* String.prototype.includes
includes(s, sub) ==
    \E i \in 0..(Len(s) - Len(sub)) : SubSeq(s, i + 1, i + Len(sub)) = sub

\* String.prototype.startsWith / endsWith
startsWith(s, p) == Len(s) >= Len(p) /\ SubSeq(s, 1, Len(p)) = p

endsWith(s, p) == Len(s) >= Len(p) /\ SubSeq(s, Len(s) - Len(p) + 1, Len(s)) = p

(***************************************************************************)
(* JavaScript values read out of parsed JSON: a tag and the text           *)
(* String(v) yields.                                                       *)
(***************************************************************************)
Undef == [t |-> "undefined", s |-> <<"u","n","d","e","f","i","n","e","d">>]

Str(s) == [t |-> "string", s |-> s]

Num(s) == [t |-> "number", s |-> s]

\* v === undefined || v === null  (what ?? and ?. test)
Nullish(v) == v.t \in {"undefined", "null"}

\* !v
Falsy(v) == Nullish(v) \/ (v.t = "string" /\ v.s = <<>>) \/ (v.t = "number" /\ v.s = <<"0">>)

\* String(v)
String(v) == v.s

\* a ?? b
Coalesce(a, b) == IF Nullish(a) THEN b ELSE a

\* a || b
OrElse(a, b) == IF Falsy(a) THEN b ELSE a

(***************************************************************************)
(* Literals of the code.                                                   *)
(***************************************************************************)
\* "/evsconn/v1/job"  (EVSConnectorPolling.ts:157, EVSConnector.ts:166, part_002:239)
EvsJobPath == <<"/","e","v","s","c","o","n","n","/","v","1","/","j","o","b">>

\* "/evsconn/v1/job/status/"  (EVSConnectorPolling.ts:192)
EvsStatusPath == EvsJobPath \o <<"/","s","t","a","t","u","s","/">>

\* "general"  (EVSConnectorPolling.ts:161)
General == <<"g","e","n","e","r","a","l">>

\* the terminal vocabulary of EVSConnectorPolling.ts:219 and :222
SuccessWords ==
    { <<"s","u","c","c","e","s","s","f","u","l">>, <<"s","u","c","c","e","s","s">>,
      <<"d","o","n","e">>, <<"c","o","m","p","l","e","t","e","d">> }

FailureWords ==
    { <<"f","a","i","l","e","d">>, <<"e","r","r","o","r">>,
      <<"c","a","n","c","e","l","e","d">>, <<"c","a","n","c","e","l","l","e","d">> }

\* maxAttempts  (EVSConnectorPolling.ts:193)
maxAttempts == 60

\* delayMs, in seconds  (EVSConnectorPolling.ts:194)
delaySec == 2

(***************************************************************************)
(* HTTP responses.  data is what axios hands over: an object parsed from   *)
(* JSON ("object"), a string holding JSON ("jsontext", only where          *)
(* forcedJSONParsing is off) or a string that is no JSON ("text").  o      *)
(* holds the fields the nodes read.                                        *)
(***************************************************************************)
NoFields ==
    [id |-> Undef, jobId |-> Undef, dataId |-> Undef, dataJobId |-> Undef,
     status |-> Undef, state |-> Undef, details |-> Undef, progress |-> Undef]

NoData == [kind |-> "text", o |-> NoFields]

NoResponse == [status |-> 0, contentType |-> "", data |-> NoData]

\* typeof data === "string"
IsStringData(data) == data.kind \in {"jsontext", "text"}

\* JSON.parse(data) throws
ParseThrows(data) == data.kind = "text"

\* ct.includes("application/json")
ctIsJson(contentType) ==
    contentType \in {"application/json", "application/json; charset=utf-8"}

\* prettyBody(data, headers): the text set as Body output, either the
\* re-indented JSON of the parsed fields or the response text as received
prettyBody(data, contentType) ==
    LET isJson == data.kind = "object" \/ ctIsJson(contentType)
    IN  IF isJson /\ ~ParseThrows(data)
        THEN [fmt |-> "json-indent-2", o |-> data.o]
        ELSE [fmt |-> "as-received", o |-> data.o]

NoBody == [fmt |-> "", o |-> NoFields]

\* obj?.jobId ?? obj?.id ?? obj?.data?.id ?? obj?.data?.jobId ?? ""
jobIdOf(o) ==
    String(Coalesce(o.jobId, Coalesce(o.id, Coalesce(o.dataId, Coalesce(o.dataJobId, Str(<<>>))))))

\* extractJobId(data)
extractJobId(data) ==
    IF IsStringData(data) /\ ParseThrows(data) THEN <<>> ELSE jobIdOf(data.o)

(***************************************************************************)
(* Request Builder.                                                        *)
(***************************************************************************)
\* String(this.wave.inputs.getInputValueByInputName(...) ?? dflt)
InputText(v, dflt) == String(Coalesce(v, Str(dflt)))

\* normalizeBase of EVSConnectorPolling.ts and of the create-only EVSConnector.ts
normalizeBase(hostUrl) == stripTrailingSlashes(trim(hostUrl))

\* normalizeBase of the create-and-monitor EVSConnector.ts
HttpScheme == <<"h","t","t","p",":","/","/">>

HttpsScheme == <<"h","t","t","p","s",":","/","/">>

EvsRoot == <<"/","e","v","s","c","o","n","n","/","v","1">>

normalizeBaseMonitor(hostUrl) ==
    LET stripped == stripTrailingSlashes(trim(hostUrl))
        url == IF ~startsWith(stripped, HttpScheme) /\ ~startsWith(stripped, HttpsScheme)
               THEN HttpScheme \o stripped
               ELSE stripped
    IN  IF endsWith(url, EvsRoot) THEN url ELSE url \o EvsRoot

\* fileToTransfer.split(/[\\/]/).pop()
RECURSIVE lastSegment(_)
lastSegment(path) ==
    IF path = <<>> \/ path[Len(path)] \in {"/", "\\"}
    THEN <<>>
    ELSE Append(lastSegment(SubSeq(path, 1, Len(path) - 1)), path[Len(path)])

\* fileToTransfer.split(/[\\/]/).pop() || fileToTransfer
jobNameFromPath(path) == IF lastSegment(path) = <<>> THEN path ELSE lastSegment(path)

\* The Metadata input.  json tells what JSON.parse makes of the text:
\* "invalid" (it throws), "scalar", "array" (items are its elements) or
\* "object" (items are its key/value pairs, id the key); "absent" is an
\* input the host does not supply.
NoMetadata == [json |-> "absent", items |-> <<>>, text |-> <<>>]

MetadataText(m) == IF m.json = "absent" THEN <<>> ELSE m.text

\* txt.split(/[\r\n;]+/)
RECURSIVE splitLines(_, _)
splitLines(s, cur) ==
    IF s = <<>> THEN <<cur>>
    ELSE IF Head(s) \in {"\r", "\n", ";"}
         THEN <<cur>> \o splitLines(Tail(s), <<>>)
         ELSE splitLines(Tail(s), Append(cur, Head(s)))

\* index of the first character of p that is one of = : #, or 0
RECURSIVE firstDelim(_, _)
firstDelim(p, i) ==
    IF i > Len(p) THEN 0
    ELSE IF p[i] \in {"=", ":", "#"} THEN i ELSE firstDelim(p, i + 1)

\* p.match(/^\s*([^=:#]+)\s*[:=]\s*(.*)\s*$/)
lineMatches(p) ==
    LET k == firstDelim(p, 1) IN k > 1 /\ p[k] # "#" /\ trim(SubSeq(p, 1, k - 1)) # <<>>

lineKey(p) == trim(SubSeq(p, 1, firstDelim(p, 1) - 1))

lineValue(p) == trim(SubSeq(p, firstDelim(p, 1) + 1, Len(p)))

\* the key=value fallback of parseMetadata; withName: the entry carries name
RECURSIVE parseLines(_, _)
parseLines(parts, withName) ==
    IF parts = <<>> THEN <<>>
    ELSE LET p == trim(Head(parts))
             rest == parseLines(Tail(parts), withName)
         IN  IF p # <<>> /\ lineMatches(p)
             THEN <<[id |-> Str(lineKey(p)),
                     name |-> IF withName THEN Str(lineKey(p)) ELSE Undef,
                     value |-> Str(lineValue(p))]>> \o rest
             ELSE rest

\* parseMetadata(raw); withName distinguishes the lib/nodes version
\* ({id, name, value}) from the one of part_002 ({id, value})
parseMetadataWith(m, withName) ==
    LET raw == MetadataText(m)
        txt == trim(raw)
    IN  IF raw = <<>> \/ txt = <<>> THEN <<>>
        ELSE IF m.json = "array" THEN m.items
        ELSE IF m.json = "object"
             THEN [i \in 1..Len(m.items) |->
                     [id |-> m.items[i].id,
                      name |-> IF withName THEN m.items[i].id ELSE Undef,
                      value |-> Str(String(m.items[i].value))]]
        ELSE parseLines(splitLines(txt, <<>>), withName)

\* parseMetadata of EVSConnectorPolling.ts and EVSConnector.ts
parseMetadata(m) == parseMetadataWith(m, TRUE)

\* parseMetadata of part_002
parseMetadataPart2(m) == parseMetadataWith(m, FALSE)

\* A JobDTO.  A scalar field that is Undef and a list that is not present
\* are left out by JSON.stringify.
NoList == [present |-> FALSE, kind |-> "array", items |-> <<>>]

List(items) == [present |-> TRUE, kind |-> "array", items |-> items]

NoPayload ==
    [id |-> Undef, name |-> Undef, metadata |-> NoList, marker |-> NoList,
     targetName |-> Undef, targetId |-> Undef, xsquarePriority |-> Undef,
     metadatasetName |-> Undef, fileToTransfer |-> Undef]

\* clean(obj)
clean(obj) ==
    [k \in DOMAIN obj |->
        IF k \in {"metadata", "marker"}
        THEN IF obj[k].present /\ obj[k].items # <<>> THEN obj[k] ELSE NoList
        ELSE IF Nullish(obj[k]) \/ (obj[k].t = "string" /\ trim(obj[k].s) = <<>>)
             THEN Undef
             ELSE obj[k]]

\* x || undefined, for a string x
OrUndefined(s) == IF s = <<>> THEN Undef ELSE Str(s)

(***************************************************************************)
(* Bounds of the model and the values the environment may supply.          *)
(***************************************************************************)
\* the create-and-monitor node polls without a limit of its own: the model
\* counts its status GETs up to MaxCount and its clock up to that many sleeps
MaxCount == 32

Min(a, b) == IF a < b THEN a ELSE b

\* n + 1, as far as the model counts
Inc(n) == Min(n + 1, MaxCount)

\* the clock after a suspension of sec seconds, as far as the model counts
After(t, sec) == Min(t + sec, MaxCount * sec)

Variants == {"polling", "create", "monitor", "part2"}

\* required inputs: not supplied, blank, or a value
HostUrls == {Undef, Str(<<" ", "/">>), Str(<<"h", "/">>), Str(<<"h", "/", " ", "/">>)}

TargetNames == {Undef, Str(<<" ">>), Str(<<"T">>)}

TargetIds == {Str(<<>>), Str(<<"7">>)}

Filepaths == {Str(<<" ">>), Str(<<"d", "\\", "f">>)}

\* optional inputs, varied together
TitleEntry == [id |-> Str(<<"t">>), name |-> Undef, value |-> Str(<<"C">>)]

Optionals ==
    { [priority |-> Undef, metadatasetName |-> Undef, metadata |-> NoMetadata],
      [priority |-> Str(<<"5">>), metadatasetName |-> Str(<<>>),
       metadata |-> [json |-> "array", items |-> <<TitleEntry>>, text |-> <<"[", "]">>]] }

\* what generateClientId() may return
ClientIds == {<<"c", "1">>}

\* what `job_${Date.now()}` may be
TimestampJobIds == {<<"j", "o", "b", "_", "1">>}

InvalidJson == [json |-> "invalid", items |-> <<>>, text |-> <<"k", "=", "v">>]

\* inputs of the nodes that check them: every combination of the required ones
CheckedInputs ==
    { [hostUrl |-> h, targetName |-> n, targetId |-> i, filepath |-> f,
       priority |-> o.priority, metadatasetName |-> o.metadatasetName,
       metadata |-> o.metadata, markers |-> NoMetadata,
       waveJobId |-> Undef, waveJobName |-> Undef, timeoutAsFailure |-> FALSE] :
      h \in HostUrls, n \in TargetNames, i \in TargetIds, f \in Filepaths,
      o \in Optionals }

\* a host URL that holds the API root
RootedHost == <<"h","/","e","v","s","c","o","n","n","/","v","1">>

\* inputs of the create-and-monitor node, which also reads wave.job and Markers
AllSupplied ==
    [hostUrl |-> Str(<<"h", "/">>), targetName |-> Str(<<"T">>), targetId |-> Str(<<"7">>),
     filepath |-> Str(<<"d", "\\", "f">>), priority |-> Undef,
     metadatasetName |-> Str(<<"m">>), metadata |-> NoMetadata, markers |-> NoMetadata,
     waveJobId |-> Str(<<"j">>), waveJobName |-> Str(<<"n">>), timeoutAsFailure |-> FALSE]

MonitorInputs ==
    { AllSupplied,
      [AllSupplied EXCEPT !.waveJobId = Undef, !.waveJobName = Undef],
      [AllSupplied EXCEPT !.hostUrl = Undef],
      [AllSupplied EXCEPT !.targetName = Str(<<" ">>)],
      [AllSupplied EXCEPT !.targetId = Str(<<>>)],
      [AllSupplied EXCEPT !.filepath = Undef],
      [AllSupplied EXCEPT !.metadata = InvalidJson],
      [AllSupplied EXCEPT !.markers = InvalidJson],
      [AllSupplied EXCEPT !.hostUrl = Str(RootedHost \o <<"/">>)],
      [AllSupplied EXCEPT !.hostUrl = Str(RootedHost \o <<"/", "j">>)] }

\* file paths and Metadaten texts the request builders are run against, each
\* with the other inputs valid
BuilderCases ==
    { [filepath |-> Str(f), metadata |-> NoMetadata] :
      f \in { <<"s", "/">>, <<"a", "/", "b", "\\", "c">>, <<"n">> } }
    \cup { [filepath |-> Str(<<"d", "\\", "f">>), metadata |-> m] :
           m \in { [json |-> "invalid", items |-> <<>>, text |-> <<"k", "=", "v">>],
                   [json |-> "invalid", items |-> <<>>, text |-> <<"n", "o", " ", "j">>],
                   [json |-> "scalar", items |-> <<>>, text |-> <<"5">>],
                   [json |-> "array", items |-> <<>>, text |-> <<"[", "]">>],
                   [json |-> "array", text |-> <<"[", "{", "}", "]">>,
                    items |-> << [id |-> Undef, name |-> Undef, value |-> Num(<<"5">>)],
                                 TitleEntry >>],
                   [json |-> "object", text |-> <<"{", "}">>,
                    items |-> << [id |-> Str(<<"k">>), value |-> Num(<<"5">>)] >>] } }

BuilderInputs ==
    { [hostUrl |-> Str(<<"h", "/">>), targetName |-> Str(<<"T">>), targetId |-> Str(<<"7">>),
       filepath |-> c.filepath, priority |-> Undef, metadatasetName |-> Undef,
       metadata |-> c.metadata, markers |-> NoMetadata,
       waveJobId |-> Undef, waveJobName |-> Undef, timeoutAsFailure |-> FALSE] :
      c \in BuilderCases }

\* inputs of EVSConnectorPolling: the wavedoc also declares Timeout As Failure
\* (unnamed/part_001:97-107), which execute never reads
PollingInputs ==
    CheckedInputs
    \cup { [i EXCEPT !.timeoutAsFailure = TRUE] :
           i \in { c \in CheckedInputs : c.hostUrl = Str(<<"h", "/">>) /\ c.priority = Undef } }

InputsOf(v) ==
    IF v = "monitor" THEN MonitorInputs
    ELSE IF v = "polling" THEN PollingInputs
    ELSE CheckedInputs \cup BuilderInputs

Obj(o) == [kind |-> "object", o |-> o]

JsonText(o) == [kind |-> "jsontext", o |-> o]

\* bodies of a creation response, as fields
CreateFields ==
    { NoFields,
      [NoFields EXCEPT !.id = Str(<<"a">>), !.status = Str(<<"E","V","S">>)],
      [NoFields EXCEPT !.jobId = Str(<<"b">>)],
      [NoFields EXCEPT !.id = Str(<<"a">>), !.jobId = Str(<<"b">>)] }

IdOnly == [NoFields EXCEPT !.id = Str(<<"a">>)]

\* creation responses: each body with 200 and JSON content type, a body with
\* every other status, and bodies that are no JSON; other holds the fields of
\* the 302 and the text/plain answers
CreateCases(kind, other) ==
    { [status |-> 200, contentType |-> "application/json",
       data |-> [kind |-> kind, o |-> o]] : o \in CreateFields }
    \cup { [status |-> st, contentType |-> "application/json",
            data |-> [kind |-> kind, o |-> IdOnly]] : st \in {404, 415, 500} }
    \cup { [status |-> 302, contentType |-> "application/json",
            data |-> [kind |-> kind, o |-> other]],
           [status |-> 200, contentType |-> "text/plain",
            data |-> [kind |-> kind, o |-> other]] }
    \cup { [status |-> st, contentType |-> "text/plain", data |-> NoData] :
           st \in {200, 500} }

\* httpPostJson switches forcedJSONParsing off: data stays a string
CreateResponsesPolling == CreateCases(JsonText(NoFields).kind, NoFields)

\* axios parses a JSON body into an object; any other body stays text
CreateResponses == CreateCases(Obj(NoFields).kind, IdOnly)

\* status texts a poll may report
StatusTexts ==
    { <<"S","U","C","C","E","S","S">>, <<"S","u","c","c","e","s","s","f","u","l">>,
      <<"C","O","M","P","L","E","T","E","D">>,
      <<"F","A","I","L","E","D">>, <<"e","r","r","o","r">>,
      <<"C","a","n","c","e","l","e","d">>, <<"c","a","n","c","e","l","l","e","d">>,
      <<"r","u","n","n","i","n","g">>,
      <<"E","V","S"," ","C","h","e","c","k","i","n"," ",
        "S","u","c","c","e","s","s","f","u","l">> }

\* progress values a poll may report
Progresses == {Num(<<"1","0">>), Num(<<"1","0","0">>)}

Running == <<"r","u","n","n","i","n","g">>

StatusFields ==
    { [NoFields EXCEPT !.status = Str(t)] : t \in StatusTexts }
    \cup { [NoFields EXCEPT !.status = Str(Running), !.progress = p] : p \in Progresses }
    \cup { NoFields,
           [NoFields EXCEPT !.state = Str(<<"d","o","n","e">>)],
           [NoFields EXCEPT !.status = Str(<<>>), !.state = Str(<<"F","a","i","l","e","d">>)] }

StatusResponses ==
    { [status |-> 200, contentType |-> "application/json", data |-> Obj(o)] :
      o \in StatusFields }
    \cup { [status |-> 200, contentType |-> "text/plain", data |-> NoData] }
    \cup { [status |-> st, contentType |-> "text/plain", data |-> NoData] :
           st \in {404, 405, 500} }

(***************************************************************************)
(* State of one invocation of execute().                                   *)
(***************************************************************************)
VARIABLES
    variant,    \* which node runs
    pc,         \* the await the invocation is suspended at
    inputs,     \* this.wave.inputs
    payload,    \* the JobDTO sent
    outputs,    \* this.wave.outputs
    result,     \* "running", "ok" (execute returned) or "failed" (it threw)
    error,      \* the Error thrown out of execute
    createRes,  \* the response of the creation POST
    jobId,      \* the job id the status URL and the stop URL are built with
    attempt,    \* the loop counter of the polling loop
    statusRes,  \* the response of the latest status GET
    now,        \* seconds elapsed since started
    requests,   \* HTTP requests issued so far, by endpoint
    profile,    \* postProgressive: index of the header profile of the POST in flight
    pollError,  \* create-and-monitor: the error the polling loop ended with
    stopError,  \* create-and-monitor: the error of the stop POST, which is only logged
    submitted,  \* the job ids earlier invocations of this process have POSTed
    last        \* postProgressive: the latest response of a creation POST

vars ==
    <<variant, pc, inputs, payload, outputs, result, error, createRes, jobId,
      attempt, statusRes, now, requests, profile, pollError, stopError, submitted, last>>

Unset(v) == [set |-> FALSE, v |-> v]

Set(v) == [set |-> TRUE, v |-> v]

\* Status .. Request are the outputs of the lib/nodes nodes; jobId, httpStatus
\* and responseJson those of part_002; Progress is the dashboard progress the
\* wavedoc declares (unnamed/part_001:173-179), which no OutputName names
NoOutputs ==
    [Status |-> Unset(0), Headers |-> Unset(""), Body |-> Unset(NoBody),
     RunTime |-> Unset(0), JobId |-> Unset(<<>>), Request |-> Unset(NoPayload),
     Progress |-> Unset(<<>>),
     jobId |-> Unset(<<>>), httpStatus |-> Unset(0), responseJson |-> Unset(NoData)]

NoError ==
    [kind |-> "none", field |-> "", status |-> 0, url |-> <<>>, jobId |-> <<>>,
     state |-> <<>>]

Init ==
    /\ variant \in Variants
    /\ inputs \in InputsOf(variant)
    /\ pc = "start"
    /\ payload = NoPayload
    /\ outputs = NoOutputs
    /\ result = "running"
    /\ error = NoError
    /\ createRes = NoResponse
    /\ jobId = <<>>
    /\ attempt = 0
    /\ statusRes = NoResponse
    /\ now = 0
    /\ requests = [info |-> 0, post |-> 0, status |-> 0, stop |-> 0]
    /\ profile = 0
    /\ pollError = NoError
    /\ stopError = NoError
    /\ submitted = {}
    /\ last = NoResponse

(***************************************************************************)
(* Steps shared by the nodes.                                              *)
(***************************************************************************)
\* execute() throws err
Throw(err) ==
    /\ result' = "failed"
    /\ error' = err
    /\ pc' = "done"

\* execute() returns
Return ==
    /\ result' = "ok"
    /\ error' = error
    /\ pc' = "done"

\* RequiredMissing with the TargetID check left out
RequiredMissingNoTargetId(baseUrl, targetName, targetId, fileToTransfer) ==
    IF baseUrl = <<>> THEN "HOST URL"
    ELSE IF targetName = <<>> THEN "Target Name"
    ELSE IF fileToTransfer = <<>> THEN "filepath"
    ELSE ""

\* the four "is required" checks of EVSConnectorPolling.ts and the
\* create-only EVSConnector.ts: the field of the first check that throws, or ""
RequiredMissing(baseUrl, targetName, targetId, fileToTransfer) ==
    IF baseUrl = <<>> THEN "HOST URL"
    ELSE IF targetName = <<>> THEN "Target Name"
    ELSE IF targetId = <<>> THEN "TargetID"
    ELSE IF fileToTransfer = <<>> THEN "filepath"
    ELSE ""

RequiredError(field) == [NoError EXCEPT !.kind = "required", !.field = field]

\* CreationFailed that lets the 4xx answers through
CreationFailedOnly5xx(status) == status >= 500

\* createRes.status >= 400  /  res.status >= 400  /  postRes.status >= 400
CreationFailed(status) == status >= 400

\* new Error(`HTTP ${status} POST ${url}`)
HttpPostError(status, url) ==
    [NoError EXCEPT !.kind = "HTTP POST", !.status = status, !.url = url]

\* an error axios throws without a response (network failure, timeout)
TransportError(url) == [NoError EXCEPT !.kind = "transport", !.url = url]

\* CatchOutputs that does not set Run time
CatchOutputsNoRunTime(outs, t) == outs

\* the catch block of EVSConnectorPolling.execute and of the create-only
\* EVSConnector.execute, for an error that carries no response
CatchOutputs(outs, t) == [outs EXCEPT !.RunTime = Set(t)]

(***************************************************************************)
(* EVSConnectorPolling.execute                                             *)
(***************************************************************************)
PollingBaseUrl == normalizeBase(InputText(inputs.hostUrl, <<>>))

\* url  (EVSConnectorPolling.ts:157)
PollingUrl == PollingBaseUrl \o EvsJobPath

\* statusUrl; encodeURIComponent leaves the ids of the model as they are
PollingStatusUrl(id) == PollingBaseUrl \o EvsStatusPath \o id

\* the payload of EVSConnectorPolling.ts:160-173
PollingPayload(id) ==
    LET metadata == parseMetadata(inputs.metadata)
        metadatasetNameRaw == trim(InputText(inputs.metadatasetName, <<>>))
        xsquarePriority == trim(InputText(inputs.priority, <<>>))
        fileToTransfer == trim(InputText(inputs.filepath, <<>>))
        metadatasetName ==
            IF metadata # <<>> /\ metadatasetNameRaw = <<>>
            THEN Str(General)
            ELSE OrUndefined(metadatasetNameRaw)
    IN  clean([id |-> Str(id),
               name |-> Str(jobNameFromPath(fileToTransfer)),
               metadata |-> IF metadata # <<>> THEN List(metadata) ELSE NoList,
               marker |-> List(<<>>),
               targetName |-> Str(trim(InputText(inputs.targetName, <<>>))),
               targetId |-> Str(trim(InputText(inputs.targetId, <<>>))),
               xsquarePriority |-> OrUndefined(xsquarePriority),
               metadatasetName |-> metadatasetName,
               fileToTransfer |-> Str(fileToTransfer)])

\* lines 142-179: read and check the inputs, build the payload, send the POST
PollingStart ==
    /\ variant = "polling" /\ pc = "start"
    /\ LET missing == RequiredMissing(PollingBaseUrl,
                                      trim(InputText(inputs.targetName, <<>>)),
                                      trim(InputText(inputs.targetId, <<>>)),
                                      trim(InputText(inputs.filepath, <<>>)))
       IN  IF missing # ""
           THEN /\ Throw(RequiredError(missing))
                /\ UNCHANGED <<payload, outputs, requests>>
           ELSE \E id \in ClientIds :
                /\ payload' = PollingPayload(id)
                /\ outputs' = [outputs EXCEPT !.Request = Set(payload')]
                /\ requests' = [requests EXCEPT !.post = @ + 1]
                /\ pc' = "awaitPost"
                /\ UNCHANGED <<result, error>>
    /\ UNCHANGED <<variant, inputs, createRes, jobId, attempt, statusRes, now, profile, pollError, stopError,
                   submitted, last>>

\* lines 181-186: the outputs set from the creation response
CreateOutputs(outs, res) ==
    [outs EXCEPT !.Status = Set(res.status),
                 !.Headers = Set(res.contentType),
                 !.Body = Set(prettyBody(res.data, res.contentType)),
                 !.JobId = Set(extractJobId(res.data))]

\* lines 179-197: the creation response arrives
PollingPostReturns ==
    /\ variant = "polling" /\ pc = "awaitPost"
    /\ \E res \in CreateResponsesPolling :
        /\ createRes' = res
        /\ jobId' = extractJobId(res.data)
        /\ IF CreationFailed(res.status)
           THEN /\ Throw(HttpPostError(res.status, PollingUrl))
                /\ outputs' = CatchOutputs(CreateOutputs(outputs, res), now)
                /\ UNCHANGED <<attempt, requests>>
           ELSE IF jobId' # <<>>
           THEN /\ outputs' = CreateOutputs(outputs, res)
                /\ attempt' = 1
                /\ requests' = [requests EXCEPT !.status = @ + 1]
                /\ pc' = "awaitStatus"
                /\ UNCHANGED <<result, error>>
           ELSE /\ Return
                /\ outputs' = [CreateOutputs(outputs, res) EXCEPT !.RunTime = Set(now)]
                /\ UNCHANGED <<attempt, requests>>
    /\ UNCHANGED <<variant, inputs, payload, statusRes, now, profile, pollError, stopError,
                   submitted, last>>

\* httpPostJson throws: the catch block sets Run time and rethrows
PollingPostThrows ==
    /\ variant = "polling" /\ pc = "awaitPost"
    /\ Throw(TransportError(PollingUrl))
    /\ outputs' = CatchOutputs(outputs, now)
    /\ UNCHANGED <<variant, inputs, payload, createRes, jobId, attempt, statusRes,
                   now, requests, profile, pollError, stopError,
                   submitted, last>>

\* String(payload?.status || payload?.state || "").toLowerCase()
PollingState(o) == toLowerCase(String(OrElse(o.status, OrElse(o.state, Str(<<>>)))))

\* new Error(`Job ${jobId} ended with state: ${st}`)
JobEndedError(id, st) == [NoError EXCEPT !.kind = "job ended", !.jobId = id, !.state = st]

\* new Error(`HTTP ${code} GET ${statusUrl}`)
HttpGetError(code, url) == [NoError EXCEPT !.kind = "HTTP GET", !.status = code, !.url = url]

\* PollingOn200 that compares the state as received, not lower-cased
PollingOn200CaseSensitive(data) ==
    IF IsStringData(data) /\ ParseThrows(data) THEN "continue"
    ELSE IF String(OrElse(data.o.status, OrElse(data.o.state, Str(<<>>)))) \in SuccessWords
         THEN "break"
         ELSE "continue"

\* PollingOn200 that takes a body it cannot parse for the end of the job
PollingOn200ParseFailureEnds(data) ==
    IF IsStringData(data) /\ ParseThrows(data) THEN "break"
    ELSE IF PollingState(data.o) \in SuccessWords THEN "break"
    ELSE "continue"

\* lines 210-230: what a poll answered with 200 does to the loop: "break" or
\* "continue".  The throw of line 223 sits inside the try of line 213, whose
\* catch (line 225) swallows it: the loop goes on.
PollingOn200(data) ==
    IF IsStringData(data) /\ ParseThrows(data) THEN "continue"
    ELSE IF PollingState(data.o) \in SuccessWords THEN "break"
    ELSE IF PollingState(data.o) \in FailureWords THEN "continue"
    ELSE "continue"

\* PollOutputs that leaves Body as the creation response set it
PollOutputsStatusOnly(outs, res) == [outs EXCEPT !.Status = Set(res.status)]

\* lines 217-218 and 227-228
PollOutputs(outs, res) ==
    [outs EXCEPT !.Body = Set(prettyBody(res.data, res.contentType)),
                 !.Status = Set(res.status)]

\* PollingStatusReturns that fails on an error status at any attempt
PollingStatusReturnsFailsAtOnce ==
    /\ variant = "polling" /\ pc = "awaitStatus"
    /\ \E res \in StatusResponses :
        /\ statusRes' = res
        /\ IF res.status \in {404, 405}
           THEN /\ Return
                /\ outputs' = [outputs EXCEPT !.RunTime = Set(now)]
           ELSE IF res.status >= 400 /\ res.status < 600
           THEN /\ Throw(HttpGetError(res.status, PollingStatusUrl(jobId)))
                /\ outputs' = CatchOutputs(outputs, now)
           ELSE IF res.status = 200 /\ PollingOn200(res.data) = "break"
           THEN /\ Return
                /\ outputs' = [PollOutputs(outputs, res) EXCEPT !.RunTime = Set(now)]
           ELSE /\ outputs' = IF res.status = 200 THEN PollOutputs(outputs, res) ELSE outputs
                /\ pc' = "sleeping"
                /\ UNCHANGED <<result, error>>
    /\ UNCHANGED <<variant, inputs, payload, createRes, jobId, attempt, now, requests,
                   profile, pollError, stopError,
                   submitted, last>>

\* lines 197-232: the answer to a status GET arrives
PollingStatusReturns ==
    /\ variant = "polling" /\ pc = "awaitStatus"
    /\ \E res \in StatusResponses :
        /\ statusRes' = res
        /\ IF res.status \in {404, 405}
           THEN /\ Return
                /\ outputs' = [outputs EXCEPT !.RunTime = Set(now)]
           ELSE IF res.status >= 400 /\ res.status < 600 /\ attempt = maxAttempts
           THEN /\ Throw(HttpGetError(res.status, PollingStatusUrl(jobId)))
                /\ outputs' = CatchOutputs(outputs, now)
           ELSE IF res.status = 200 /\ PollingOn200(res.data) = "break"
           THEN /\ Return
                /\ outputs' = [PollOutputs(outputs, res) EXCEPT !.RunTime = Set(now)]
           ELSE /\ outputs' = IF res.status = 200 THEN PollOutputs(outputs, res) ELSE outputs
                /\ pc' = "sleeping"
                /\ UNCHANGED <<result, error>>
    /\ UNCHANGED <<variant, inputs, payload, createRes, jobId, attempt, now, requests,
                   profile, pollError, stopError,
                   submitted, last>>

\* tryGet throws: the catch block sets Run time and rethrows
PollingStatusThrows ==
    /\ variant = "polling" /\ pc = "awaitStatus"
    /\ Throw(TransportError(PollingStatusUrl(jobId)))
    /\ outputs' = CatchOutputs(outputs, now)
    /\ UNCHANGED <<variant, inputs, payload, createRes, jobId, attempt, statusRes,
                   now, requests, profile, pollError, stopError,
                   submitted, last>>

\* PollingSleepEnds whose loop runs once more than maxAttempts
PollingSleepEndsOneMore ==
    /\ variant = "polling" /\ pc = "sleeping"
    /\ now' = now + delaySec
    /\ attempt' = attempt + 1
    /\ IF attempt' <= maxAttempts + 1
       THEN /\ requests' = [requests EXCEPT !.status = @ + 1]
            /\ pc' = "awaitStatus"
            /\ UNCHANGED <<result, error, outputs>>
       ELSE /\ Return
            /\ outputs' = [outputs EXCEPT !.RunTime = Set(now')]
            /\ UNCHANGED requests
    /\ UNCHANGED <<variant, inputs, payload, createRes, jobId, statusRes, profile, pollError, stopError,
                   submitted, last>>

\* lines 232, 196-197 and 236: the delay ends; next attempt, or the loop is over
PollingSleepEnds ==
    /\ variant = "polling" /\ pc = "sleeping"
    /\ now' = now + delaySec
    /\ attempt' = attempt + 1
    /\ IF attempt' <= maxAttempts
       THEN /\ requests' = [requests EXCEPT !.status = @ + 1]
            /\ pc' = "awaitStatus"
            /\ UNCHANGED <<result, error, outputs>>
       ELSE /\ Return
            /\ outputs' = [outputs EXCEPT !.RunTime = Set(now')]
            /\ UNCHANGED requests
    /\ UNCHANGED <<variant, inputs, payload, createRes, jobId, statusRes, profile, pollError, stopError,
                   submitted, last>>

(***************************************************************************)
(* EVSConnector.execute, create-only (EVSConnector.ts:27-211)              *)
(***************************************************************************)
\* the Content-Type of each header profile of postProgressive, in order
Profiles ==
    <<"", "application/json", "application/json; charset=UTF-8",
      "application/json; charset=utf-8">>

CreateBaseUrl == normalizeBase(InputText(inputs.hostUrl, <<>>))

\* url  (EVSConnector.ts:166)
CreateUrl == CreateBaseUrl \o EvsJobPath

\* the payload of EVSConnector.ts:169-178
CreatePayload ==
    LET metadata == parseMetadata(inputs.metadata)
        fileToTransfer == trim(InputText(inputs.filepath, <<>>))
    IN  clean([NoPayload EXCEPT
               !.name = Str(jobNameFromPath(fileToTransfer)),
               !.targetName = Str(trim(InputText(inputs.targetName, <<>>))),
               !.targetId = Str(trim(InputText(inputs.targetId, <<>>))),
               !.xsquarePriority = Str(trim(InputText(inputs.priority, <<>>))),
               !.metadatasetName = Str(trim(InputText(inputs.metadatasetName, <<>>))),
               !.fileToTransfer = Str(fileToTransfer),
               !.metadata = IF metadata # <<>> THEN List(metadata) ELSE NoList])

\* lines 151-184 and 113: read and check the inputs, build the payload, send
\* the first POST of postProgressive
CreateStart ==
    /\ variant = "create" /\ pc = "start"
    /\ LET missing == RequiredMissing(CreateBaseUrl,
                                      trim(InputText(inputs.targetName, <<>>)),
                                      trim(InputText(inputs.targetId, <<>>)),
                                      trim(InputText(inputs.filepath, <<>>)))
       IN  IF missing # ""
           THEN /\ Throw(RequiredError(missing))
                /\ UNCHANGED <<payload, outputs, requests, profile>>
           ELSE /\ payload' = CreatePayload
                /\ outputs' = [outputs EXCEPT !.Request = Set(payload')]
                /\ requests' = [requests EXCEPT !.post = @ + 1]
                /\ profile' = 1
                /\ pc' = "awaitPost"
                /\ UNCHANGED <<result, error>>
    /\ UNCHANGED <<variant, inputs, createRes, jobId, attempt, statusRes, now, pollError, stopError,
                   submitted, last>>

\* lines 186-189 and 193
CreateOnlyOutputs(outs, res, t) ==
    [outs EXCEPT !.Status = Set(res.status),
                 !.Headers = Set(res.contentType),
                 !.Body = Set(prettyBody(res.data, res.contentType)),
                 !.RunTime = Set(t),
                 !.JobId = Set(extractJobId(res.data))]

\* CreatePostReturns whose postProgressive sends the next profile after any error status
CreatePostReturnsRetriesErrors ==
    /\ variant = "create" /\ pc = "awaitPost"
    /\ \E res \in CreateResponses :
        /\ last' = res
        /\ IF res.status >= 400 /\ profile < Len(Profiles)
           THEN /\ profile' = profile + 1
                /\ requests' = [requests EXCEPT !.post = @ + 1]
                /\ UNCHANGED <<pc, result, error, outputs, jobId, createRes>>
           ELSE /\ createRes' = res
                /\ jobId' = extractJobId(res.data)
                /\ UNCHANGED <<profile, requests>>
                /\ IF CreationFailed(res.status)
                   THEN /\ Throw(HttpPostError(res.status, CreateUrl))
                        /\ outputs' = CatchOutputs(CreateOnlyOutputs(outputs, res, now), now)
                   ELSE /\ Return
                        /\ outputs' = CreateOnlyOutputs(outputs, res, now)
    /\ UNCHANGED <<variant, inputs, payload, attempt, statusRes, now, pollError, stopError,
                   submitted>>

\* lines 113-117 and 186-209: a creation response arrives; postProgressive
\* sends the next profile after a 415, else it returns the response (createRes)
\* and execute goes on with it
CreatePostReturns ==
    /\ variant = "create" /\ pc = "awaitPost"
    /\ \E res \in CreateResponses :
        /\ last' = res
        /\ IF res.status = 415 /\ profile < Len(Profiles)
           THEN /\ profile' = profile + 1
                /\ requests' = [requests EXCEPT !.post = @ + 1]
                /\ UNCHANGED <<pc, result, error, outputs, jobId, createRes>>
           ELSE /\ createRes' = res
                /\ jobId' = extractJobId(res.data)
                /\ UNCHANGED <<profile, requests>>
                /\ IF CreationFailed(res.status)
                   THEN /\ Throw(HttpPostError(res.status, CreateUrl))
                        /\ outputs' = CatchOutputs(CreateOnlyOutputs(outputs, res, now), now)
                   ELSE /\ Return
                        /\ outputs' = CreateOnlyOutputs(outputs, res, now)
    /\ UNCHANGED <<variant, inputs, payload, attempt, statusRes, now, pollError, stopError,
                   submitted>>

\* axios.post throws inside postProgressive: the catch block sets Run time
CreatePostThrows ==
    /\ variant = "create" /\ pc = "awaitPost"
    /\ Throw(TransportError(CreateUrl))
    /\ outputs' = CatchOutputs(outputs, now)
    /\ UNCHANGED <<variant, inputs, payload, createRes, jobId, attempt, statusRes,
                   now, requests, profile, pollError, stopError,
                   submitted, last>>

(***************************************************************************)
(* EVSConnector.execute of unnamed/part_002                                *)
(***************************************************************************)
\* the four checks of part_002:234-237, in their order
RequiredMissingPart2(baseUrl, fileToTransfer, targetName, targetId) ==
    IF baseUrl = <<>> THEN "HOST URL"
    ELSE IF fileToTransfer = <<>> THEN "filepath"
    ELSE IF targetName = <<>> THEN "Target Name"
    ELSE IF targetId = <<>> THEN "TargetID"
    ELSE ""

\* url  (part_002:239)
Part2Url == stripTrailingSlashes(trim(InputText(inputs.hostUrl, <<>>))) \o EvsJobPath

\* the payload of part_002:244-252
Part2Payload ==
    LET fileToTransfer == trim(InputText(inputs.filepath, <<>>))
    IN  [NoPayload EXCEPT
         !.name = Str(jobNameFromPath(fileToTransfer)),
         !.targetName = Str(trim(InputText(inputs.targetName, <<>>))),
         !.targetId = Str(trim(InputText(inputs.targetId, <<>>))),
         !.xsquarePriority = OrUndefined(trim(InputText(inputs.priority, <<>>))),
         !.metadatasetName = OrUndefined(trim(InputText(inputs.metadatasetName, <<>>))),
         !.fileToTransfer = Str(fileToTransfer),
         !.metadata = List(parseMetadataPart2(inputs.metadata))]

\* lines 226-258: read and check the inputs, build the payload, send the POST
Part2Start ==
    /\ variant = "part2" /\ pc = "start"
    /\ LET missing == RequiredMissingPart2(trim(InputText(inputs.hostUrl, <<>>)),
                                           trim(InputText(inputs.filepath, <<>>)),
                                           trim(InputText(inputs.targetName, <<>>)),
                                           trim(InputText(inputs.targetId, <<>>)))
       IN  IF missing # ""
           THEN /\ Throw(RequiredError(missing))
                /\ UNCHANGED <<payload, requests>>
           ELSE /\ payload' = Part2Payload
                /\ requests' = [requests EXCEPT !.post = @ + 1]
                /\ pc' = "awaitPost"
                /\ UNCHANGED <<result, error>>
    /\ UNCHANGED <<variant, inputs, outputs, createRes, jobId, attempt, statusRes, now,
                   profile, pollError, stopError,
                   submitted, last>>

\* lines 258-294: the creation response arrives.  httpStatus is the decimal
\* text of the status; responseJson the body as one string.
Part2PostReturns ==
    /\ variant = "part2" /\ pc = "awaitPost"
    /\ \E res \in CreateResponses :
        /\ createRes' = res
        /\ jobId' = extractJobId(res.data)
        /\ outputs' = [outputs EXCEPT !.jobId = Set(extractJobId(res.data)),
                                      !.httpStatus = Set(res.status),
                                      !.responseJson = Set(res.data)]
        /\ IF CreationFailed(res.status)
           THEN Throw(HttpPostError(res.status, Part2Url))
           ELSE Return
    /\ UNCHANGED <<variant, inputs, payload, attempt, statusRes, now, requests, profile,
                   pollError, stopError,
                   submitted, last>>

\* axios.post throws: the error is logged and rethrown
Part2PostThrows ==
    /\ variant = "part2" /\ pc = "awaitPost"
    /\ Throw(TransportError(Part2Url))
    /\ UNCHANGED <<variant, inputs, payload, outputs, createRes, jobId, attempt,
                   statusRes, now, requests, profile, pollError, stopError,
                   submitted, last>>

(***************************************************************************)
(* EVSConnector.execute, create-and-monitor (EVSConnector.ts:213-458)      *)
(***************************************************************************)
\* sleep(2000), in seconds  (EVSConnector.ts:439)
monitorDelaySec == 2

Medium == <<"M","e","d","i","u","m">>

Untitled == <<"U","n","t","i","t","l","e","d"," ","E","V","S"," ","J","o","b">>

\* "/job/stop/"  (EVSConnector.ts:445)
StopPath == <<"/","j","o","b","/","s","t","o","p","/">>

NoDetails == <<"N","o"," ","d","e","t","a","i","l","s">>

Failed == <<"f","a","i","l","e","d">>

Cancel == <<"c","a","n","c","e","l">>

Successful == <<"s","u","c","c","e","s","s","f","u","l">>

\* host  (EVSConnector.ts:330)
MonitorHost == normalizeBaseMonitor(InputText(inputs.hostUrl, <<>>))

\* JSON.parse(String(input ?? "[]")) throws
JsonInputThrows(m) == m.json = "invalid"

\* JSON.parse(String(input ?? "[]")), as a list of the payload
JsonInput(m) ==
    IF m.json = "absent" THEN List(<<>>)
    ELSE [present |-> TRUE, kind |-> m.json, items |-> m.items]

\* jobDTO  (EVSConnector.ts:366-376)
MonitorPayload(evsJobId) ==
    [id |-> Str(evsJobId),
     name |-> Str(InputText(inputs.waveJobName, Untitled)),
     metadata |-> JsonInput(inputs.metadata),
     marker |-> JsonInput(inputs.markers),
     targetName |-> Str(InputText(inputs.targetName, <<>>)),
     targetId |-> Str(InputText(inputs.targetId, <<>>)),
     xsquarePriority |-> Str(InputText(inputs.priority, Medium)),
     metadatasetName |-> Str(InputText(inputs.metadatasetName, <<>>)),
     fileToTransfer |-> Str(InputText(inputs.filepath, <<>>))]

MonitorError(kind) == [NoError EXCEPT !.kind = kind]

\* responses of GET /info that axios resolves or rejects by its default validateStatus
InfoStatuses == {200, 204, 503}

\* lines 327-359: read the inputs, parse Metadata and Markers, send GET /info
MonitorStart ==
    /\ variant = "monitor" /\ pc = "start"
    /\ IF JsonInputThrows(inputs.metadata)
       THEN /\ Throw(MonitorError("Failed to parse Metadata JSON"))
            /\ UNCHANGED <<jobId, requests>>
       ELSE IF JsonInputThrows(inputs.markers)
       THEN /\ Throw(MonitorError("Failed to parse Markers JSON"))
            /\ UNCHANGED <<jobId, requests>>
       ELSE /\ \E ts \in TimestampJobIds : jobId' = InputText(inputs.waveJobId, ts)
            /\ requests' = [requests EXCEPT !.info = Inc(@)]
            /\ pc' = "awaitInfo"
            /\ UNCHANGED <<result, error>>
    /\ UNCHANGED <<variant, inputs, payload, outputs, createRes, attempt, statusRes, now,
                   profile, pollError, stopError,
                   submitted, last>>

\* lines 359-383: the answer to GET /info arrives; on 200 the jobDTO is built
\* and POSTed
MonitorInfoReturns ==
    /\ variant = "monitor" /\ pc = "awaitInfo"
    /\ \E status \in InfoStatuses :
        IF status # 200
        THEN /\ Throw([MonitorError("Unable to connect to EVS") EXCEPT
                       !.status = status, !.url = MonitorHost])
             /\ UNCHANGED <<payload, requests>>
        ELSE /\ payload' = MonitorPayload(jobId)
             /\ requests' = [requests EXCEPT !.post = Inc(@)]
             /\ pc' = "awaitPost"
             /\ UNCHANGED <<result, error>>
    /\ UNCHANGED <<variant, inputs, outputs, createRes, jobId, attempt, statusRes, now,
                   profile, pollError, stopError,
                   submitted, last>>

\* GET /info throws
MonitorInfoThrows ==
    /\ variant = "monitor" /\ pc = "awaitInfo"
    /\ Throw([MonitorError("Unable to connect to EVS") EXCEPT !.url = MonitorHost])
    /\ UNCHANGED <<variant, inputs, payload, outputs, createRes, jobId, attempt,
                   statusRes, now, requests, profile, pollError, stopError,
                   submitted, last>>

\* creation responses the create-and-monitor node is run against
MonitorCreateResponses ==
    { [status |-> st, contentType |-> "application/json",
       data |-> Obj([NoFields EXCEPT !.id = Str(<<"a">>)])] : st \in {200, 302, 409, 500} }

\* lines 380-406: the creation response arrives; below 400 the loop is
\* entered and the first status GET is sent
MonitorPostReturns ==
    /\ variant = "monitor" /\ pc = "awaitPost"
    /\ \E res \in MonitorCreateResponses :
        /\ createRes' = res
        /\ IF CreationFailed(res.status)
           THEN /\ Throw([MonitorError("Unable to post job to EVS") EXCEPT
                          !.status = res.status])
                /\ UNCHANGED requests
           ELSE /\ requests' = [requests EXCEPT !.status = Inc(@)]
                /\ pc' = "awaitStatus"
                /\ UNCHANGED <<result, error>>
    /\ UNCHANGED <<variant, inputs, payload, outputs, jobId, attempt, statusRes, now,
                   profile, pollError, stopError,
                   submitted, last>>

\* axios.post throws
MonitorPostThrows ==
    /\ variant = "monitor" /\ pc = "awaitPost"
    /\ Throw(MonitorError("Unable to post job to EVS"))
    /\ UNCHANGED <<variant, inputs, payload, outputs, createRes, jobId, attempt,
                   statusRes, now, requests, profile, pollError, stopError,
                   submitted, last>>

\* lines 415-417: jobStatus?.status and jobStatus?.details; a string has neither
MonitorStatusField(data) == IF IsStringData(data) THEN Undef ELSE data.o.status

MonitorDetails(data) ==
    String(OrElse(IF IsStringData(data) THEN Undef ELSE data.o.details, Str(NoDetails)))

\* MonitorVerdict that tests for "successful" before "failed" and "cancel"
MonitorVerdictSuccessfulFirst(data) ==
    LET status == OrElse(MonitorStatusField(data), Str(<<>>))
        statusText == toLowerCase(String(status))
    IN  IF status.t # "string" THEN "TypeError"
        ELSE IF includes(statusText, Successful) THEN "successful"
        ELSE IF includes(statusText, Failed) THEN "failed"
        ELSE IF includes(statusText, Cancel) THEN "canceled"
        ELSE "sleep"

\* lines 416-439: what a poll does to the loop: "TypeError" (toLowerCase of a
\* value that is no string), "failed", "canceled", "successful" or "sleep"
MonitorVerdict(data) ==
    LET status == OrElse(MonitorStatusField(data), Str(<<>>))
        statusText == toLowerCase(String(status))
    IN  IF status.t # "string" THEN "TypeError"
        ELSE IF includes(statusText, Failed) THEN "failed"
        ELSE IF includes(statusText, Cancel) THEN "canceled"
        ELSE IF includes(statusText, Successful) THEN "successful"
        ELSE "sleep"

\* status responses the create-and-monitor node is run against
MonitorStatusTexts ==
    StatusTexts \cup
    { <<"J","o","b"," ","F","a","i","l","e","d">>,
      <<"C","a","n","c","e","l","l","i","n","g">>,
      <<"f","a","i","l","e","d",",","s","u","c","c","e","s","s","f","u","l">> }

MonitorStatusResponses ==
    { [status |-> 200, contentType |-> "application/json",
       data |-> Obj([NoFields EXCEPT !.status = Str(t)])] : t \in MonitorStatusTexts }
    \cup { [status |-> 200, contentType |-> "application/json",
            data |-> Obj([NoFields EXCEPT !.status = Str(Running), !.progress = p])] :
           p \in Progresses }
    \cup { [status |-> 200, contentType |-> "application/json", data |-> Obj(NoFields)],
           [status |-> 200, contentType |-> "application/json",
            data |-> Obj([NoFields EXCEPT !.status = Num(<<"5">>)])],
           [status |-> 200, contentType |-> "text/plain", data |-> NoData],
           [status |-> 500, contentType |-> "text/plain", data |-> NoData] }

\* MonitorCleanup that rethrows without the stop POST
MonitorCleanupNoStop(err) ==
    /\ pollError' = err
    /\ requests' = requests
    /\ Throw(err)

\* lines 441-448: the catch of the polling loop keeps the error and sends the stop POST
MonitorCleanup(err) ==
    /\ pollError' = err
    /\ requests' = [requests EXCEPT !.stop = Inc(@)]
    /\ pc' = "awaitStop"
    /\ UNCHANGED <<result, error>>

\* lines 430-434
MonitorOutputs(outs, res, id, t) ==
    [outs EXCEPT !.Status = Set(res.status),
                 !.Headers = Set(res.contentType),
                 !.Body = Set(prettyBody(res.data, res.contentType)),
                 !.RunTime = Set(t),
                 !.JobId = Set(id)]

\* lines 402-439: the answer to a status GET arrives
MonitorStatusReturns ==
    /\ variant = "monitor" /\ pc = "awaitStatus"
    /\ \E res \in MonitorStatusResponses :
        /\ statusRes' = res
        /\ IF res.status >= 400
           THEN /\ MonitorCleanup([MonitorError("Network error while polling job status")
                                   EXCEPT !.status = res.status])
                /\ UNCHANGED outputs
           ELSE IF MonitorVerdict(res.data) = "successful"
           THEN /\ Return
                /\ outputs' = MonitorOutputs(outputs, res, jobId, now)
                /\ UNCHANGED <<pollError, requests>>
           ELSE IF MonitorVerdict(res.data) = "sleep"
           THEN /\ pc' = "sleeping"
                /\ UNCHANGED <<result, error, outputs, pollError, requests>>
           ELSE /\ MonitorCleanup([MonitorError(MonitorVerdict(res.data)) EXCEPT
                                   !.state = MonitorDetails(res.data)])
                /\ UNCHANGED outputs
    /\ UNCHANGED <<variant, inputs, payload, createRes, jobId, attempt, now, profile, stopError,
                   submitted, last>>

\* the status GET throws (network failure, the 5 s timeout)
MonitorStatusThrows ==
    /\ variant = "monitor" /\ pc = "awaitStatus"
    /\ MonitorCleanup(MonitorError("Network error while polling job status"))
    /\ UNCHANGED <<variant, inputs, payload, outputs, createRes, jobId, attempt,
                   statusRes, now, profile, stopError,
                   submitted, last>>

\* lines 439, 395 and 402: the sleep ends and the next status GET is sent
MonitorSleepEnds ==
    /\ variant = "monitor" /\ pc = "sleeping"
    /\ now' = After(now, monitorDelaySec)
    /\ requests' = [requests EXCEPT !.status = Inc(@)]
    /\ pc' = "awaitStatus"
    /\ UNCHANGED <<variant, inputs, payload, outputs, result, error, createRes, jobId,
                   attempt, statusRes, profile, pollError, stopError,
                   submitted, last>>

\* lines 445-455: the stop POST returns, with any status; pollError is rethrown
MonitorStopReturns ==
    /\ variant = "monitor" /\ pc = "awaitStop"
    /\ Throw(pollError)
    /\ UNCHANGED <<variant, inputs, payload, outputs, createRes, jobId, attempt,
                   statusRes, now, requests, profile, pollError, stopError,
                   submitted, last>>

\* MonitorStopThrows that lets the error of the stop POST out of the catch
MonitorStopThrowsStopError ==
    /\ variant = "monitor" /\ pc = "awaitStop"
    /\ stopError' = TransportError(MonitorHost \o StopPath \o jobId)
    /\ Throw(stopError')
    /\ UNCHANGED <<variant, inputs, payload, outputs, createRes, jobId, attempt,
                   statusRes, now, requests, profile, pollError,
                   submitted, last>>

\* lines 449-455: the stop POST throws; that error is logged, pollError rethrown
MonitorStopThrows ==
    /\ variant = "monitor" /\ pc = "awaitStop"
    /\ stopError' = TransportError(MonitorHost \o StopPath \o jobId)
    /\ Throw(pollError)
    /\ UNCHANGED <<variant, inputs, payload, outputs, createRes, jobId, attempt,
                   statusRes, now, requests, profile, pollError,
                   submitted, last>>

Next ==
    \/ PollingStart
    \/ PollingPostReturns
    \/ PollingPostThrows
    \/ PollingStatusReturns
    \/ PollingStatusThrows
    \/ PollingSleepEnds
    \/ CreateStart
    \/ CreatePostReturns
    \/ CreatePostThrows
    \/ Part2Start
    \/ Part2PostReturns
    \/ Part2PostThrows
    \/ MonitorStart
    \/ MonitorInfoReturns
    \/ MonitorInfoThrows
    \/ MonitorPostReturns
    \/ MonitorPostThrows
    \/ MonitorStatusReturns
    \/ MonitorStatusThrows
    \/ MonitorSleepEnds
    \/ MonitorStopReturns
    \/ MonitorStopThrows

Spec == Init /\ [][Next]_vars

\* EVSConnectorPolling alone, every HTTP call returning or throwing and every
\* timer firing in the end
PollingInit ==
    /\ Init /\ variant = "polling"
    /\ ~inputs.timeoutAsFailure /\ inputs.priority = Undef
    /\ inputs.hostUrl \in {Undef, Str(<<"h", "/">>)}

PollingNext ==
    \/ PollingStart
    \/ PollingPostReturns
    \/ PollingPostThrows
    \/ PollingStatusReturns
    \/ PollingStatusThrows
    \/ PollingSleepEnds

PollingFairSpec == PollingInit /\ [][PollingNext]_vars /\ WF_vars(PollingNext)

\* The create-and-monitor node invoked again and again in one process and in
\* one host job: wave.job.id stays what it is from invocation to invocation.
ProcessInputs == { i \in MonitorInputs : i.waveJobId # Undef }

ProcessInit == Init /\ variant = "monitor" /\ inputs \in ProcessInputs

\* execute() has settled and the host invokes the node again
NextInvocation ==
    /\ variant = "monitor" /\ pc = "done"
    /\ submitted' = IF requests.post > 0 THEN submitted \cup {String(payload.id)}
                    ELSE submitted
    /\ inputs' \in ProcessInputs
    /\ pc' = "start"
    /\ payload' = NoPayload
    /\ outputs' = NoOutputs
    /\ result' = "running"
    /\ error' = NoError
    /\ createRes' = NoResponse
    /\ jobId' = <<>>
    /\ attempt' = 0
    /\ statusRes' = NoResponse
    /\ now' = 0
    /\ requests' = [info |-> 0, post |-> 0, status |-> 0, stop |-> 0]
    /\ profile' = 0
    /\ pollError' = NoError
    /\ stopError' = NoError
    /\ last' = NoResponse
    /\ UNCHANGED variant

ProcessNext ==
    \/ MonitorStart
    \/ MonitorInfoReturns
    \/ MonitorInfoThrows
    \/ MonitorPostReturns
    \/ MonitorPostThrows
    \/ MonitorStatusReturns
    \/ MonitorStatusThrows
    \/ MonitorSleepEnds
    \/ MonitorStopReturns
    \/ MonitorStopThrows
    \/ NextInvocation

ProcessSpec == ProcessInit /\ [][ProcessNext]_vars

(***************************************************************************)
(* Properties.                                                             *)
(***************************************************************************)
\* timeout default of the wavedoc, in seconds  (unnamed/part_001:92)
timeoutSec == 60

NoRequests == [info |-> 0, post |-> 0, status |-> 0, stop |-> 0]

\* a required input is blank after trimming
Blank(v) == trim(InputText(v, <<>>)) = <<>>

AnyRequiredBlank ==
    Blank(inputs.hostUrl) \/ Blank(inputs.targetName) \/ Blank(inputs.targetId)
    \/ Blank(inputs.filepath)

\* the latest status poll was answered 200 with a body that parses
Polled200 == statusRes.status = 200 /\ ~(IsStringData(statusRes.data) /\ ParseThrows(statusRes.data))

\* the status, else the state, of the latest poll, lower-cased
PolledState ==
    LET o == statusRes.data.o
    IN  toLowerCase(String(IF Falsy(o.status) THEN o.state ELSE o.status))

\* C1: in EVSConnectorPolling.execute, after a status poll answered 200 with a
\* status/state of failed, error, canceled or cancelled (any case), the
\* invocation has failed with an error naming the job id and that state; it
\* is neither polling on nor completed normally.
C1_FailureStateFailsInvocation ==
    (variant = "polling" /\ Polled200 /\ PolledState \in FailureWords)
    => (pc = "done" /\ result = "failed" /\ error = JobEndedError(jobId, PolledState))

\* C2: in the create-and-monitor node the polling loop is left once the
\* deadline (start + 60 s) has passed: no status GET is in flight and no
\* sleep is pending at or after the deadline.
C2_MonitorLoopExitsAtDeadline ==
    (variant = "monitor" /\ now >= timeoutSec) => pc \notin {"awaitStatus", "sleeping"}

\* C3: in EVSConnectorPolling, the create-only EVSConnector and part_002, if
\* host URL, target name, target id or file path is blank after trimming, no
\* HTTP request is ever issued and the invocation ends failed with the error
\* of a required-input check.
C3_BlankInputFailsBeforeAnyRequest ==
    (variant \in {"polling", "create", "part2"} /\ AnyRequiredBlank)
    => /\ requests = NoRequests
       /\ pc \in {"start", "done"}
       /\ pc = "done" => (result = "failed" /\ error.kind = "required" /\ error.field # "")

C3_Witness ==
    /\ variant \in {"polling", "create", "part2"}
    /\ Blank(inputs.targetId) /\ ~Blank(inputs.hostUrl) /\ ~Blank(inputs.targetName)
    /\ ~Blank(inputs.filepath)
    /\ pc = "done" /\ result = "failed" /\ error = RequiredError("TargetID")

\* C4: in the create-and-monitor node, if host URL, target name, target id or
\* file path is blank, no request (GET /info, POST /job, status GET) is ever
\* issued and the invocation ends failed.
C4_MonitorBlankInputFailsBeforeAnyRequest ==
    (variant = "monitor" /\ AnyRequiredBlank)
    => /\ requests = NoRequests
       /\ pc \in {"start", "done"}
       /\ pc = "done" => result = "failed"

\* C5: in EVSConnectorPolling and the create-only EVSConnector, once the
\* creation POST has returned a status >= 400 the invocation has failed with
\* the error HTTP <status> POST <url>, and Status code, Headers, Body and Run
\* time are set from that response.
C5_CreationHttpErrorKeepsOutputs ==
    (variant \in {"polling", "create"} /\ createRes.status >= 400)
    => /\ pc = "done" /\ result = "failed"
       /\ error.kind = "HTTP POST" /\ error.status = createRes.status
       /\ error.url = stripTrailingSlashes(trim(InputText(inputs.hostUrl, <<>>))) \o EvsJobPath
       /\ outputs.Status = Set(createRes.status)
       /\ outputs.Headers = Set(createRes.contentType)
       /\ outputs.Body = Set(prettyBody(createRes.data, createRes.contentType))
       /\ outputs.RunTime = Set(now)

C5_Witness ==
    /\ variant = "polling" /\ createRes.status = 500 /\ result = "failed"
    /\ outputs.Status = Set(500) /\ outputs.RunTime.set

\* C6: in every node, a creation POST answered with a status outside 200..299
\* (1xx and 3xx included) fails the invocation.
C6_Non2xxCreationFails ==
    (createRes.status # 0 /\ createRes.status \notin 200..299)
    => (pc = "done" /\ result = "failed")

\* C7: in both polling nodes a status GET has been issued only if the creation
\* POST has returned with a status below 400.
C7_StatusGetOnlyAfterCreation ==
    (variant \in {"polling", "monitor"} /\ requests.status > 0)
    => (createRes # NoResponse /\ createRes.status < 400 /\ requests.post > 0)

C7_Witness ==
    /\ variant \in {"polling", "monitor"} /\ requests.status > 1
    /\ createRes.status = 200

\* C8: the resolved job id (Job Id output, id of the status URL) is the id
\* field of the creation response whenever the body carries an id, also when
\* it carries a jobId as well.
C8_IdWinsOverJobId ==
    (variant \in {"polling", "create"} /\ createRes # NoResponse
     /\ ~ParseThrows(createRes.data) /\ ~Nullish(createRes.data.o.id))
    => (outputs.JobId = Set(String(createRes.data.o.id))
        /\ jobId = String(createRes.data.o.id))

\* C9: in EVSConnectorPolling, when the creation response (status < 400) has
\* neither id nor jobId, or does not parse, the resolved job id is the
\* client-generated id of the payload, and status polling goes on with it.
C9_FallsBackToClientId ==
    (variant = "polling" /\ createRes # NoResponse /\ createRes.status < 400
     /\ (ParseThrows(createRes.data)
         \/ (Nullish(createRes.data.o.id) /\ Nullish(createRes.data.o.jobId))))
    => (outputs.JobId = Set(String(payload.id)) /\ jobId = String(payload.id)
        /\ requests.status > 0)

\* the success statuses C10 names
C10Words ==
    { <<"s","u","c","c","e","s","s">>, <<"s","u","c","c","e","s","s","f","u","l">>,
      <<"c","o","m","p","l","e","t","e","d">> }

C10_Case ==
    /\ variant = "polling" /\ Polled200
    /\ statusRes.data.o.status.t = "string"
    /\ toLowerCase(statusRes.data.o.status.s) \in C10Words

EvsCheckinSuccessful ==
    <<"e","v","s"," ","c","h","e","c","k","i","n"," ","s","u","c","c","e","s","s","f","u","l">>

\* the latest status poll was answered 200 with a JSON body whose status is a text
PolledStatusText ==
    /\ statusRes.status = 200 /\ statusRes.data.kind = "object"
    /\ statusRes.data.o.status.t = "string"

\* C11: in EVSConnectorPolling and the create-and-monitor node, once a status
\* poll has answered 200 with the status "EVS Checkin Successful" (any case),
\* polling is over and the invocation has returned normally.
C11_EvsCheckinSuccessfulEndsPolling ==
    (variant \in {"polling", "monitor"} /\ PolledStatusText
     /\ toLowerCase(statusRes.data.o.status.s) = EvsCheckinSuccessful)
    => (pc = "done" /\ result = "ok")

\* the latest status poll was answered 200 with a status text outside every
\* terminal vocabulary and a progress of 100
PolledFullProgress ==
    /\ PolledStatusText /\ statusRes.data.o.status.s = Running
    /\ statusRes.data.o.progress = Num(<<"1","0","0">>)

\* C12: in EVSConnectorPolling and the create-and-monitor node, once a status
\* poll has reported a progress of 100 (status text not terminal), polling is
\* over and the invocation has returned normally.
C12_FullProgressEndsPolling ==
    (variant \in {"polling", "monitor"} /\ PolledFullProgress)
    => (pc = "done" /\ result = "ok")

\* C13: in EVSConnectorPolling, a poll that reports a progress above the last
\* emitted one emits it: once a status poll has answered 200 with a numeric
\* progress (10 or 100 here, both above anything emitted before), the
\* Progress output has been set.
C13_ProgressEmittedWhenIncreased ==
    (variant = "polling" /\ statusRes.status = 200 /\ statusRes.data.kind = "object"
     /\ statusRes.data.o.progress.t = "number")
    => outputs.Progress.set

\* the 60 attempts are used up and the last poll was answered 200 with a
\* state outside both terminal vocabularies (or with no readable state)
C14_Case ==
    /\ variant = "polling" /\ pc = "done" /\ attempt > maxAttempts
    /\ statusRes.status = 200
    /\ (Polled200 => PolledState \notin SuccessWords \cup FailureWords)

C15_TimeoutAsFailureFails ==
    (variant = "polling" /\ inputs.timeoutAsFailure /\ pc = "done"
     /\ now >= timeoutSec /\ statusRes.status = 200
     /\ (Polled200 => PolledState \notin SuccessWords \cup FailureWords)
     /\ error.kind # "transport")
    => (result = "failed" /\ error.kind = "timeout")

\* the network error the create-and-monitor node wraps a thrown status GET in
StatusGetThrew == MonitorError("Network error while polling job status")

\* what may follow a poll that is not terminal: the sleep, the next status GET,
\* that GET failing in transport, or (EVSConnectorPolling) the attempts used up
PollingWentOn ==
    \/ pc \in {"sleeping", "awaitStatus"}
    \/ /\ variant = "polling" /\ pc = "done"
       /\ \/ result = "failed" /\ error.kind = "transport"
          \/ result = "ok" /\ attempt > maxAttempts
    \/ /\ variant = "monitor" /\ pollError = StatusGetThrew
       /\ \/ pc = "awaitStop"
          \/ pc = "done" /\ result = "failed" /\ error = StatusGetThrew

\* the latest poll was answered 200 with a body that does not parse
PolledUnparsable ==
    statusRes.status = 200 /\ IsStringData(statusRes.data) /\ ParseThrows(statusRes.data)

\* the latest poll was answered 200 with a JSON body without a status field
PolledNoStatus ==
    /\ statusRes.status = 200 /\ statusRes.data.kind = "object"
    /\ Nullish(statusRes.data.o.status)

C17_StopFailureKeepsPollError ==
    (variant = "monitor" /\ stopError # NoError)
    => /\ pc = "done" /\ result = "failed"
       /\ pollError # NoError /\ error = pollError /\ error # stopError

\* the loop ended on a failed status and the stop POST failed as well
C17_Witness ==
    /\ variant = "monitor" /\ stopError.kind = "transport" /\ pc = "done"
    /\ error.kind = "failed" /\ requests.stop = 1

\* C18: in the create-and-monitor node, whenever execute has finished after a
\* status poll was answered (success, failed or canceled status, failed
\* fetch), Status code, Headers, Body, Run time and Job ID are set, the first
\* three from the latest poll response.
C18_MonitorOutputsOnEveryExit ==
    (variant = "monitor" /\ pc = "done" /\ statusRes # NoResponse)
    => /\ outputs.Status = Set(statusRes.status)
       /\ outputs.Headers = Set(statusRes.contentType)
       /\ outputs.Body = Set(prettyBody(statusRes.data, statusRes.contentType))
       /\ outputs.RunTime.set
       /\ outputs.JobId = Set(jobId)

\* C19: in EVSConnectorPolling, when the invocation has finished after the
\* creation POST was answered, Status code and Body are the status and body
\* of the creation response: status polls have not changed them.
C19_PollsLeaveCreationOutputs ==
    (variant = "polling" /\ pc = "done" /\ createRes # NoResponse)
    => /\ outputs.Status = Set(createRes.status)
       /\ outputs.Body = Set(prettyBody(createRes.data, createRes.contentType))

\* C20: normalizeBase of EVSConnectorPolling.ts and of the create-only
\* EVSConnector.ts is idempotent: the base URL execute has computed from the
\* HOST URL input is left as it is by a second normalizeBase.
C20_NormalizeBaseIdempotent ==
    (variant \in {"polling", "create"} /\ pc # "start")
    => LET baseUrl == normalizeBase(InputText(inputs.hostUrl, <<>>))
       IN  normalizeBase(baseUrl) = baseUrl

\* how often sub occurs in s
RECURSIVE Occurrences(_, _)
Occurrences(s, sub) ==
    IF Len(s) < Len(sub) THEN 0
    ELSE (IF startsWith(s, sub) THEN 1 ELSE 0) + Occurrences(Tail(s), sub)

\* C21: normalizeBase of the create-and-monitor node is idempotent and its
\* result ends with "/evsconn/v1", which occurs in it exactly once: the host
\* execute has computed is a fixed point, ends with the segment and holds it
\* once, also when the HOST URL has the segment mid-path.
C21_MonitorBaseHasOneApiRoot ==
    (variant = "monitor" /\ pc # "start")
    => /\ normalizeBaseMonitor(MonitorHost) = MonitorHost
       /\ endsWith(MonitorHost, EvsRoot)
       /\ Occurrences(MonitorHost, EvsRoot) = 1

\* path without the separators at its end
RECURSIVE dropTrailingSeparators(_)
dropTrailingSeparators(path) ==
    IF path # <<>> /\ path[Len(path)] \in {"/", "\\"}
    THEN dropTrailingSeparators(SubSeq(path, 1, Len(path) - 1))
    ELSE path

\* C22: in EVSConnectorPolling, the create-only EVSConnector and part_002 the
\* name of the payload is the last non-empty segment of the trimmed file path,
\* split on / and \ (the path itself when it has no separator), also for a
\* path that ends with a separator.
C22_NameIsLastNonEmptySegment ==
    (variant \in {"polling", "create", "part2"} /\ payload # NoPayload)
    => LET path == trim(InputText(inputs.filepath, <<>>))
       IN  payload.name = Str(lastSegment(dropTrailingSeparators(path)))

\* the Metadata input is empty or is text JSON.parse does not accept
MetadataUnparsable ==
    trim(MetadataText(inputs.metadata)) = <<>> \/ inputs.metadata.json = "invalid"

\* C23: in every node, with a Metadata input that is empty or not JSON, the
\* invocation does not fail on the metadata, and the payload, once built,
\* has no metadata field.
C23_UnparsableMetadataIsOmitted ==
    MetadataUnparsable
    => /\ error.kind # "Failed to parse Metadata JSON"
       /\ payload # NoPayload => ~payload.metadata.present

\* C24: in EVSConnectorPolling, the create-only EVSConnector and part_002,
\* every entry of the metadata list of the payload has a non-empty id and a
\* value that is a string.
C24_MetadataEntriesAreCanonical ==
    (variant \in {"polling", "create", "part2"} /\ payload.metadata.present)
    => \A i \in 1..Len(payload.metadata.items) :
         LET e == payload.metadata.items[i]
         IN  e.id.t = "string" /\ e.id.s # <<>> /\ e.value.t = "string"

\* a payload field that is sent, with a non-empty text
Sent(v) == v.t = "string" /\ v.s # <<>>

\* C25: in every node, the payload built for the creation POST has the fields
\* id, name, targetName, targetId and fileToTransfer, each non-empty.
C25_PayloadHasRequiredFields ==
    payload # NoPayload
    => /\ Sent(payload.id) /\ Sent(payload.name) /\ Sent(payload.targetName)
       /\ Sent(payload.targetId) /\ Sent(payload.fileToTransfer)

\* the text of an input is not blank
Supplied(v) == trim(InputText(v, <<>>)) # <<>>

\* a payload field is left out or sent with a non-empty text
OmittedOrSent(v) == v = Undef \/ Sent(v)

\* C26: in EVSConnectorPolling, xsquarePriority is in the payload iff the
\* priority input is not blank, metadatasetName iff the metadata-set-name
\* input is not blank, metadata iff at least one entry was parsed, and no
\* field is an empty string or an empty list.
C26_OptionalFieldsFollowInputs ==
    (variant = "polling" /\ payload # NoPayload)
    => /\ Sent(payload.xsquarePriority) <=> Supplied(inputs.priority)
       /\ Sent(payload.metadatasetName) <=> Supplied(inputs.metadatasetName)
       /\ payload.metadata.present <=> parseMetadata(inputs.metadata) # <<>>
       /\ OmittedOrSent(payload.xsquarePriority) /\ OmittedOrSent(payload.metadatasetName)
       /\ payload.metadata.present => payload.metadata.items # <<>>
       /\ payload.marker.present => payload.marker.items # <<>>

\* a status GET is issued only after the creation POST or after a sleep, one
\* at a time
OneStatusGetAtATime ==
    requests'.status # requests.status
    => /\ pc \in {"awaitPost", "sleeping"} /\ pc' = "awaitStatus"
       /\ requests'.status = requests.status + 1

\* C28: EVSConnectorPolling.execute issues at most 60 status GETs, one at a
\* time (the GET in flight is that of the current attempt, the next one is
\* issued only when the sleep after the previous one has ended), and it
\* reaches a final outcome whenever every HTTP call returns or throws.
C28_AtMost60PollsAndTermination ==
    /\ [](requests.status <= 60 /\ (pc \in {"awaitStatus", "sleeping"} => requests.status = attempt))
    /\ [][OneStatusGetAtATime]_vars
    /\ <>(pc = "done" /\ result \in {"ok", "failed"})

C28_Witness ==
    /\ variant = "polling" /\ pc = "done" /\ requests.status = 60 /\ result = "ok"

\* C29: in EVSConnectorPolling, a status GET answered 404 or 405 ends polling
\* at once with a normal return; one answered with another status of 400..599
\* is passed over on attempts 1..59 (sleep, next GET) and fails the invocation
\* with HTTP <code> GET <statusUrl> only as the answer of attempt 60; a status
\* GET that throws fails the invocation at once.
C29_StatusGetErrors ==
    variant = "polling"
    => /\ statusRes.status \in {404, 405}
          => (pc = "done" /\ result = "ok" /\ requests.status = attempt)
       /\ (statusRes.status \in 400..599 /\ statusRes.status \notin {404, 405})
          => \/ pc = "sleeping" /\ attempt < maxAttempts
             \/ pc = "awaitStatus" /\ attempt > 1
             \/ /\ pc = "done" /\ result = "failed"
                /\ \/ /\ error = HttpGetError(statusRes.status, PollingStatusUrl(jobId))
                      /\ attempt = maxAttempts
                   \/ error.kind = "transport"
       /\ error.kind = "HTTP GET"
          => (attempt = maxAttempts /\ statusRes.status \in 400..599)
       /\ (error.kind = "transport" /\ requests.status > 0)
          => (pc = "done" /\ result = "failed" /\ requests.status = attempt)

\* a 500 on an earlier attempt was passed over, the 500 of attempt 60 failed
C29_Witness ==
    /\ variant = "polling" /\ pc = "done" /\ result = "failed"
    /\ error.kind = "HTTP GET" /\ error.status = 500 /\ attempt = maxAttempts

\* the errors the polling loop of the create-and-monitor node ends with
LoopErrorKinds ==
    {"failed", "canceled", "TypeError", "Network error while polling job status"}

\* the errors execute throws before the polling loop
EarlyErrorKinds ==
    {"Failed to parse Metadata JSON", "Failed to parse Markers JSON",
     "Unable to connect to EVS", "Unable to post job to EVS"}

\* C30: in the create-and-monitor node the stop POST is issued exactly once
\* when the polling loop has ended with an error (failed or cancel status,
\* HTTP >= 400 on a poll, status GET thrown), and not at all when the job
\* ended successful, /info failed or the creation POST failed.
C30_StopIssuedOnceOnLoopAbort ==
    variant = "monitor"
    => /\ requests.stop = IF pollError # NoError THEN 1 ELSE 0
       /\ pollError # NoError
          => (pollError.kind \in LoopErrorKinds /\ requests.status > 0
              /\ pc \in {"awaitStop", "done"})
       /\ pc = "done"
          => /\ error.kind \in LoopErrorKinds => requests.stop = 1
             /\ (result = "ok" \/ error.kind \in EarlyErrorKinds) => requests.stop = 0
             /\ result = "failed" => error.kind \in LoopErrorKinds \cup EarlyErrorKinds

\* the loop ended on a canceled status after some polls; the stop POST was sent
C30_Witness ==
    /\ variant = "monitor" /\ pc = "done" /\ error.kind = "canceled"
    /\ requests.stop = 1 /\ requests.status > 1

\* C27: a create-and-monitor invocation never POSTs, polls or stops a job id
\* that an earlier invocation of the same process has submitted.
C27_JobIdsAreLocalToAnInvocation ==
    (variant = "monitor" /\ requests.post + requests.status + requests.stop > 0)
    => jobId \notin submitted

\* the create-only node has a creation POST in flight
CreatePostInFlight == variant = "create" /\ pc = "awaitPost"

\* postProgressive has returned a response to execute
CreatePostReturned == variant = "create" /\ createRes # NoResponse

\* C31: postProgressive of the create-only node issues between 1 and 4
\* creation POSTs, the k-th with the k-th header profile; a further POST is in
\* flight only while every response so far had status 415; the response it
\* returns is the latest one, which is the first that is not 415, or the 4th;
\* after a response that is not 415 no creation POST is in flight any more.
C31_PostProgressiveEscalatesOnlyOn415 ==
    variant = "create" =>
        /\ requests.post \in 0..Len(Profiles)
        /\ requests.post = profile
        /\ CreatePostInFlight =>
              /\ requests.post >= 1
              /\ createRes = NoResponse
              /\ (requests.post = 1 <=> last = NoResponse)
              /\ (requests.post > 1 => last.status = 415)
        /\ CreatePostReturned =>
              /\ pc = "done"
              /\ requests.post >= 1
              /\ createRes = last
              /\ (createRes.status = 415 => requests.post = Len(Profiles))
        /\ (last # NoResponse /\ last.status # 415) =>
              (pc = "done" /\ createRes = last)

\* all four profiles were answered 415 and the 4th response was returned
C31_Witness ==
    /\ CreatePostReturned
    /\ requests.post = Len(Profiles)
    /\ createRes.status = 415
    /\ result = "failed"

\* the create-and-monitor node's latest status GET was answered below 400
MonitorPolled ==
    /\ variant = "monitor"
    /\ statusRes # NoResponse /\ statusRes.status < 400
    /\ pollError # StatusGetThrew

\* the status field of the latest poll, "" in place of a falsy one
PolledStatus == OrElse(MonitorStatusField(statusRes.data), Str(<<>>))

\* its lower-cased text
PolledLowerText == toLowerCase(String(PolledStatus))

\* the polling loop was left with an error of this kind: the stop POST is in
\* flight, or the invocation has failed with that error
PollFailedWith(kind) ==
    /\ pollError.kind = kind
    /\ \/ pc = "awaitStop"
       \/ pc = "done" /\ result = "failed" /\ error = pollError

PollSucceeded == pc = "done" /\ result = "ok" /\ pollError = NoError

PollContinues == pc \in {"sleeping", "awaitStatus"} /\ pollError = NoError

\* the substring tests in their precedence
VerdictOfText ==
    IF includes(PolledLowerText, Failed) THEN PollFailedWith("failed")
    ELSE IF includes(PolledLowerText, Cancel) THEN PollFailedWith("canceled")
    ELSE IF includes(PolledLowerText, Successful) THEN PollSucceeded
    ELSE PollContinues

\* a normal completion follows a poll with "successful" and neither "failed"
\* nor "cancel" in the status text
NormalOnlyAfterSuccessful ==
    (variant = "monitor" /\ result = "ok") =>
        /\ MonitorPolled
        /\ PolledStatus.t = "string"
        /\ includes(PolledLowerText, Successful)
        /\ ~includes(PolledLowerText, Failed)
        /\ ~includes(PolledLowerText, Cancel)

====
